---------------------------- MODULE Spec2Model ----------------------------
(***************************************************************************)
(* bleachpdf: PII redaction for PDF documents.                             *)
(*                                                                         *)
(* The model follows src/src/bleachpdf/__init__.py: the per-page pipeline  *)
(* (normalize, build_stream, find_matches, group_adjacent_words,           *)
(* compute_box, draw_redactions, redact_image), the per-document           *)
(* orchestration (redact_pdf, scan_pdf, _process_single_pdf) and main's    *)
(* dispatch, result handling and exit classification.                      *)
(*                                                                         *)
(* Conventions.  Text is a sequence of one-character strings.  Word        *)
(* indices are 0-based as in the Python code, so word i of a list is       *)
(* words[i + 1].  An image is a record of its pixel size, the text drawn   *)
(* on it (as word rectangles) and the set of rectangles painted black.     *)
(***************************************************************************)
EXTENDS Integers, Sequences, FiniteSets, TLC

(***************************************************************************)
(* Program constants.                                                      *)
(***************************************************************************)
EXIT_SUCCESS == 0
EXIT_CONFIG_ERROR == 1
EXIT_FILE_ERROR == 2
EXIT_NO_MATCHES == 3
EXIT_VERIFICATION_FAILED == 4

\* compute_box's default padding, in pixels.
Pad == 4
\* group_adjacent_words' horizontal gap threshold, in pixels.
GapThreshold == 50
\* argparse default of --dpi.
DefaultDpi == 300

\* Python's None, and a value that is not None: an optional value is a
\* sequence of at most one element.
None == <<>>

Some(v) == <<v>>

\* Python's truth value of an int | None.
Truthy(opt) == opt # None /\ opt[1] # 0

(***************************************************************************)
(* Bounds of the model.                                                    *)
(***************************************************************************)
\* Largest number of words of a page given to a function on its own.
MaxWords == 3
\* Largest number of grammars given to a function on its own.
MaxGrammars == 2
\* Largest number of input documents of one run.
MaxJobs == 2
\* Largest os.cpu_count() considered.
MaxCpu == 4

(***************************************************************************)
(* Small helpers on integers and sequences.                                *)
(***************************************************************************)
Max2(a, b) == IF a >= b THEN a ELSE b

Min2(a, b) == IF a <= b THEN a ELSE b

Abs(a) == IF a >= 0 THEN a ELSE -a

SetMax(S) == CHOOSE x \in S : \A y \in S : y <= x

SetMin(S) == CHOOSE x \in S : \A y \in S : x <= y

Range(s) == {s[i] : i \in 1..Len(s)}

RECURSIVE Flatten(_)
Flatten(ss) == IF ss = <<>> THEN <<>> ELSE Head(ss) \o Flatten(Tail(ss))

RECURSIVE SumSeq(_)
SumSeq(s) == IF s = <<>> THEN 0 ELSE Head(s) + SumSeq(Tail(s))

\* sorted(S) for a finite set of integers.
RECURSIVE Sorted(_)
Sorted(S) == IF S = {} THEN <<>> ELSE <<SetMin(S)>> \o Sorted(S \ {SetMin(S)})

(***************************************************************************)
(* Data types: Word, TextStream, Box.                                      *)
(***************************************************************************)
Word(text, left, top, width, height) ==
    [text |-> text, left |-> left, top |-> top, width |-> width, height |-> height]

right(w) == w.left + w.width

bottom(w) == w.top + w.height

Box(left, top, r, b) == [left |-> left, top |-> top, right |-> r, bottom |-> b]

(***************************************************************************)
(* Text processing.                                                        *)
(***************************************************************************)
Digits == {"0", "1", "2", "3", "4", "5", "6", "7", "8", "9"}

Lowers == {"a", "b", "c", "d", "n", "s"}

Uppers == {"A", "B", "C", "D", "N", "S"}

\* The characters [A-Za-z0-9] keeps, within the model's alphabet.
IsAlnum(c) == c \in Digits \cup Lowers \cup Uppers

\* normalize that lets the hyphen through.
normalize_KeepsHyphen(text) == SelectSeq(text, LAMBDA c : IsAlnum(c) \/ c = "-")

\* re.sub(r"[^A-Za-z0-9]", "", text)
normalize(text) == SelectSeq(text, IsAlnum)

\* build_stream that gives a word without an alphanumeric character one
\* position of the stream, a blank.
build_stream_KeepsEmpty(words) ==
    LET Part(w) == IF normalize(w.text) = <<>> THEN <<" ">> ELSE normalize(w.text)
    IN  [text     |-> Flatten([i \in 1..Len(words) |-> Part(words[i])]),
         word_map |-> Flatten([i \in 1..Len(words) |->
                          [k \in 1..Len(Part(words[i])) |-> i - 1]])]

\* build_stream whose map counts the words from one.
build_stream_OneBased(words) ==
    [text     |-> Flatten([i \in 1..Len(words) |-> normalize(words[i].text)]),
     word_map |-> Flatten([i \in 1..Len(words) |->
                      [k \in 1..Len(normalize(words[i].text)) |-> i]])]

\* build_stream: the normalized words concatenated, and for every character
\* the (0-based) index of the word it comes from.
build_stream(words) ==
    [text     |-> Flatten([i \in 1..Len(words) |-> normalize(words[i].text)]),
     word_map |-> Flatten([i \in 1..Len(words) |->
                      [k \in 1..Len(normalize(words[i].text)) |-> i - 1]])]

(***************************************************************************)
(* Patterns and grammars.  A pattern is the source of a PEG grammar.  The *)
(* model has the patterns main builds from -m TEXT, match = ~"TEXT"i (a    *)
(* case-insensitive literal); the pattern match = ~"[0-9]+" (a run of      *)
(* digits, as long as it goes); the empty pattern, which compiles to a     *)
(* grammar without a rule, whose match raises at every offset; and         *)
(* patterns whose compilation fails.                                       *)
(***************************************************************************)
Literal(chars) == [kind |-> "literal", lit |-> chars]

DigitRun == [kind |-> "digits", lit |-> <<>>]

NoRule == [kind |-> "norule", lit |-> <<>>]

Malformed == [kind |-> "malformed", lit |-> <<>>]

Lower(c) ==
    CASE c = "A" -> "a" [] c = "B" -> "b" [] c = "C" -> "c"
      [] c = "D" -> "d" [] c = "N" -> "n" [] c = "S" -> "s"
      [] OTHER -> c

\* Grammar(pattern) raises for a pattern that is no grammar.
Compiles(pattern) == pattern.kind # "malformed"

\* compile_grammars that gives up at the first pattern that does not
\* compile: the patterns after it are lost.
RECURSIVE compile_grammars_StopsAtFailure(_)
compile_grammars_StopsAtFailure(patterns) ==
    IF patterns = <<>> \/ ~Compiles(Head(patterns)) THEN <<>>
    ELSE <<Head(patterns)>> \o compile_grammars_StopsAtFailure(Tail(patterns))

\* compile_grammars: the patterns that compile, in order; the others are
\* dropped (the except branch only logs).
compile_grammars(patterns) == SelectSeq(patterns, Compiles)

\* The number of digits text goes on with after the 0-based offset start.
RECURSIVE DigitsFrom(_, _)
DigitsFrom(text, start) ==
    IF start < Len(text) /\ text[start + 1] \in Digits
    THEN 1 + DigitsFrom(text, start + 1)
    ELSE 0

\* grammar.match(text, start): the length of the text the default rule
\* consumes at the 0-based offset start, or -1 when the call raises
\* (ParseError where the rule does not match, RuntimeError without a rule).
Match(grammar, text, start) ==
    CASE grammar.kind = "literal" ->
            LET n == Len(grammar.lit)
            IN  IF /\ start + n <= Len(text)
                   /\ \A k \in 1..n : Lower(text[start + k]) = Lower(grammar.lit[k])
                THEN n
                ELSE -1
      [] grammar.kind = "digits" ->
            IF DigitsFrom(text, start) > 0 THEN DigitsFrom(text, start) ELSE -1
      [] OTHER -> -1

\* SpanWords that maps only the first character of the span.
SpanWords_FirstOnly(stream, start, length) ==
    IF length > 0 /\ start < Len(stream.word_map)
    THEN {stream.word_map[start + 1]}
    ELSE {}

\* for i in range(start, start + len(node.text)): the words of the span's
\* characters, as far as word_map goes.
SpanWords(stream, start, length) ==
    {stream.word_map[i + 1] :
        i \in {k \in start..(start + length - 1) : k < Len(stream.word_map)}}

\* The loop over the offsets with the try around the whole loop: the first
\* exception ends the scan with this grammar.
RECURSIVE OffsetLoop_StopsAtException(_, _, _, _)
OffsetLoop_StopsAtException(stream, grammar, start, matched_words) ==
    IF start >= Len(stream.text) THEN matched_words
    ELSE IF Match(grammar, stream.text, start) < 0 THEN matched_words
    ELSE OffsetLoop_StopsAtException(stream, grammar, start + 1,
             matched_words \cup
                 SpanWords(stream, start, Match(grammar, stream.text, start)))

\* for start in range(len(stream.text)): a match adds the words of its
\* span, an exception is passed over.
RECURSIVE OffsetLoop(_, _, _, _)
OffsetLoop(stream, grammar, start, matched_words) ==
    IF start >= Len(stream.text) THEN matched_words
    ELSE LET length == Match(grammar, stream.text, start)
         IN  OffsetLoop(stream, grammar, start + 1,
                        IF length >= 0
                        THEN matched_words \cup SpanWords(stream, start, length)
                        ELSE matched_words)

\* for grammar in grammars
RECURSIVE GrammarLoop(_, _, _)
GrammarLoop(stream, grammars, matched_words) ==
    IF grammars = <<>> THEN matched_words
    ELSE GrammarLoop(stream, Tail(grammars),
                     OffsetLoop(stream, Head(grammars), 0, matched_words))

\* find_matches: the set of the indices of the words that are part of any
\* match.
find_matches(stream, grammars) == GrammarLoop(stream, grammars, {})

(***************************************************************************)
(* Redaction geometry.                                                     *)
(***************************************************************************)
\* same_line with <= in place of <.
same_line_NonStrict(prev, curr) == 2 * Abs(prev.top - curr.top) <= prev.height

\* abs(prev.top - curr.top) < prev.height * 0.5, in integers.
same_line(prev, curr) == 2 * Abs(prev.top - curr.top) < prev.height

\* adjacent with the distance between the two edges in place of the signed
\* gap.
adjacent_AbsGap(prev_idx, idx, prev, curr) ==
    \/ idx = prev_idx + 1
    \/ Abs(curr.left - right(prev)) < GapThreshold

\* idx == prev_idx + 1 or (curr.left - prev.right < 50)
adjacent(prev_idx, idx, prev, curr) ==
    \/ idx = prev_idx + 1
    \/ curr.left - right(prev) < GapThreshold

\* GroupLoop without the groups.append(current_group) after the loop.
RECURSIVE GroupLoop_DropsLast(_, _, _, _)
GroupLoop_DropsLast(rest, groups, current, words) ==
    IF rest = <<>> THEN groups
    ELSE LET idx      == Head(rest)
             prev_idx == current[Len(current)]
             prev     == words[prev_idx + 1]
             curr     == words[idx + 1]
         IN  IF same_line(prev, curr) /\ adjacent(prev_idx, idx, prev, curr)
             THEN GroupLoop_DropsLast(Tail(rest), groups, Append(current, idx), words)
             ELSE GroupLoop_DropsLast(Tail(rest), Append(groups, current), <<idx>>, words)

\* The loop of group_adjacent_words over sorted_indices[1:]: groups are the
\* closed groups, current the group being built.
RECURSIVE GroupLoop(_, _, _, _)
GroupLoop(rest, groups, current, words) ==
    IF rest = <<>> THEN Append(groups, current)
    ELSE LET idx      == Head(rest)
             prev_idx == current[Len(current)]
             prev     == words[prev_idx + 1]
             curr     == words[idx + 1]
         IN  IF same_line(prev, curr) /\ adjacent(prev_idx, idx, prev, curr)
             THEN GroupLoop(Tail(rest), groups, Append(current, idx), words)
             ELSE GroupLoop(Tail(rest), Append(groups, current), <<idx>>, words)

group_adjacent_words(matched_indices, words) ==
    IF matched_indices = {} THEN <<>>
    ELSE LET sorted_indices == Sorted(matched_indices)
         IN  GroupLoop(Tail(sorted_indices), <<>>, <<Head(sorted_indices)>>, words)

\* The grouping of the earlier revisions bleachpdf.py and redactor.py,
\* which differ from the present one in the same-line coefficient only.
\* A same-line test tighter than the present one.
legacy_same_line_Tight(prev, curr) == 10 * Abs(prev.top - curr.top) < prev.height

\* abs(prev_top - curr_top) < prev_height * 1.5, in integers.
legacy_same_line(prev, curr) == 2 * Abs(prev.top - curr.top) < 3 * prev.height

\* close = idx == prev_idx + 1 or (curr_left - (prev_left + prev_width) < 50)
legacy_close(prev_idx, idx, prev, curr) ==
    \/ idx = prev_idx + 1
    \/ curr.left - (prev.left + prev.width) < GapThreshold

RECURSIVE legacy_GroupLoop(_, _, _, _)
legacy_GroupLoop(rest, groups, current, words) ==
    IF rest = <<>> THEN Append(groups, current)
    ELSE LET idx      == Head(rest)
             prev_idx == current[Len(current)]
             prev     == words[prev_idx + 1]
             curr     == words[idx + 1]
         IN  IF legacy_same_line(prev, curr) /\ legacy_close(prev_idx, idx, prev, curr)
             THEN legacy_GroupLoop(Tail(rest), groups, Append(current, idx), words)
             ELSE legacy_GroupLoop(Tail(rest), Append(groups, current), <<idx>>, words)

legacy_group_adjacent_words(matched_indices, words) ==
    IF matched_indices = {} THEN <<>>
    ELSE LET sorted_indices == Sorted(matched_indices)
         IN  legacy_GroupLoop(Tail(sorted_indices), <<>>, <<Head(sorted_indices)>>, words)

\* compute_box without the clamp to the image.
compute_box_NoClamp(words, indices, img_size, pad) ==
    LET group_words == {words[indices[k] + 1] : k \in 1..Len(indices)}
    IN  Box(SetMin({w.left : w \in group_words}) - pad,
            SetMin({w.top : w \in group_words}) - pad,
            SetMax({right(w) : w \in group_words}) + pad,
            SetMax({bottom(w) : w \in group_words}) + pad)

\* compute_box: the union of the group's word rectangles, padded, clamped
\* to the image.
compute_box(words, indices, img_size, pad) ==
    LET group_words == {words[indices[k] + 1] : k \in 1..Len(indices)}
    IN  Box(Max2(0, SetMin({w.left : w \in group_words}) - pad),
            Max2(0, SetMin({w.top : w \in group_words}) - pad),
            Min2(img_size[1], SetMax({right(w) : w \in group_words}) + pad),
            Min2(img_size[2], SetMax({bottom(w) : w \in group_words}) + pad))

(***************************************************************************)
(* Images, OCR and drawing.  pytesseract and PIL are outside the program; *)
(* the model gives them the behaviour of an ideal engine: OCR reads a      *)
(* word iff its glyphs are at least MinGlyph pixels high and no painted    *)
(* rectangle covers it, and always reads it the same way.                  *)
(***************************************************************************)
\* Smallest pixel height at which the OCR engine recognises a word.
MinGlyph == 10

Image(size, words, boxes) == [size |-> size, words |-> words, boxes |-> boxes]

Covers(box, w) ==
    /\ box.left <= w.left
    /\ box.top <= w.top
    /\ right(w) <= box.right
    /\ bottom(w) <= box.bottom

\* ocr_page: the recognised words, in reading order, width and height at
\* least 1.
ocr_page(img) ==
    LET Read(w) == /\ w.text # <<>>
                   /\ w.height >= MinGlyph
                   /\ ~ \E box \in img.boxes : Covers(box, w)
        Fix(w)  == Word(w.text, w.left, w.top, Max2(1, w.width), Max2(1, w.height))
        seen    == SelectSeq(img.words, Read)
    IN  [i \in 1..Len(seen) |-> Fix(seen[i])]

\* Image objects live in a heap, a sequence of images; an object is named
\* by its place in it.
\* img.copy() that hands back the object it was called on.
copy_Alias(heap, id) == [heap |-> heap, id |-> id]

\* img.copy(): a new object with the pixels of the object id.
copy(heap, id) == [heap |-> Append(heap, heap[id]), id |-> Len(heap) + 1]

\* draw_redactions: a copy of the image with every box filled black.
draw_redactions(img, boxes) ==
    Image(img.size, img.words, img.boxes \cup Range(boxes))

\* redact_image that counts the matched words.
redact_image_CountsWords(img, grammars) ==
    LET words   == ocr_page(img)
        stream  == build_stream(words)
        matched == find_matches(stream, grammars)
        groups  == group_adjacent_words(matched, words)
        boxes   == [g \in 1..Len(groups) |-> compute_box(words, groups[g], img.size, Pad)]
    IN  IF words = <<>> THEN <<img, 0>>
        ELSE IF matched = {} THEN <<img, 0>>
        ELSE <<draw_redactions(img, boxes), Cardinality(matched)>>

\* redact_image that paints the whole page when nothing matched.
redact_image_BlanksUnmatched(img, grammars) ==
    LET words   == ocr_page(img)
        stream  == build_stream(words)
        matched == find_matches(stream, grammars)
        groups  == group_adjacent_words(matched, words)
        boxes   == [g \in 1..Len(groups) |-> compute_box(words, groups[g], img.size, Pad)]
    IN  IF words = <<>> THEN <<img, 0>>
        ELSE IF matched = {}
             THEN <<draw_redactions(img, <<Box(0, 0, img.size[1], img.size[2])>>), 0>>
        ELSE <<draw_redactions(img, boxes), Len(boxes)>>

\* The two early returns of redact_image, which hand back img itself.
ReturnsGiven(img, grammars) ==
    \/ ocr_page(img) = <<>>
    \/ find_matches(build_stream(ocr_page(img)), grammars) = {}

\* redact_image: <<redacted image, number of redactions>>.
redact_image(img, grammars) ==
    LET words   == ocr_page(img)
        stream  == build_stream(words)
        matched == find_matches(stream, grammars)
        groups  == group_adjacent_words(matched, words)
        boxes   == [g \in 1..Len(groups) |-> compute_box(words, groups[g], img.size, Pad)]
    IN  IF words = <<>> THEN <<img, 0>>
        ELSE IF matched = {} THEN <<img, 0>>
        ELSE <<draw_redactions(img, boxes), Len(boxes)>>

(***************************************************************************)
(* PDF operations.  A document is readable or not and has pages; a page    *)
(* holds its content in pixels at the resolution ref.                      *)
(***************************************************************************)
Page(ref, size, words, boxes) ==
    [ref |-> ref, size |-> size, words |-> words, boxes |-> boxes]

Document(pages) == [readable |-> TRUE, pages |-> pages]

\* A path at which fitz.open raises: no file there, or no PDF.
NoFile == [readable |-> FALSE, pages |-> <<>>]

\* render_page: the page's content scaled from page.ref to dpi.
render_page(page, dpi) ==
    LET S(v)  == (v * dpi) \div page.ref
        SW(w) == Word(w.text, S(w.left), S(w.top), S(w.width), S(w.height))
        SB(b) == Box(S(b.left), S(b.top), S(b.right), S(b.bottom))
    IN  Image(<<S(page.size[1]), S(page.size[2])>>,
              [i \in 1..Len(page.words) |-> SW(page.words[i])],
              {SB(b) : b \in page.boxes})

\* images_to_pdf: one page per image, in order, sized for dpi.
images_to_pdf(images, dpi) ==
    Document([i \in 1..Len(images) |->
                 Page(dpi, images[i].size, images[i].words, images[i].boxes)])

\* redact_pdf that writes no file when it redacted nothing.
redact_pdf_SkipsEmpty(doc, grammars, dpi) ==
    LET redacted == [i \in 1..Len(doc.pages) |->
                        redact_image(render_page(doc.pages[i], dpi), grammars)]
        count    == SumSeq([i \in 1..Len(redacted) |-> redacted[i][2]])
    IN  [output |-> IF count = 0 THEN NoFile
                    ELSE images_to_pdf([i \in 1..Len(redacted) |-> redacted[i][1]], dpi),
         count  |-> count]

\* redact_pdf on a readable document: the document written to output_path
\* and the total number of redactions.
redact_pdf(doc, grammars, dpi) ==
    LET redacted == [i \in 1..Len(doc.pages) |->
                        redact_image(render_page(doc.pages[i], dpi), grammars)]
    IN  [output |-> images_to_pdf([i \in 1..Len(redacted) |-> redacted[i][1]], dpi),
         count  |-> SumSeq([i \in 1..Len(redacted) |-> redacted[i][2]])]

\* scan_pdf on a readable document: the number of match groups found.
scan_pdf(doc, grammars, dpi) ==
    LET PageMatches(page) ==
            LET words   == ocr_page(render_page(page, dpi))
                matched == find_matches(build_stream(words), grammars)
            IN  IF words = <<>> THEN 0
                ELSE IF matched # {} THEN Len(group_adjacent_words(matched, words))
                ELSE 0
    IN  SumSeq([i \in 1..Len(doc.pages) |-> PageMatches(doc.pages[i])])

(***************************************************************************)
(* Parallel processing: the pieces of _process_single_pdf, and             *)
(* get_worker_count.                                                       *)
(***************************************************************************)
\* JobResult that loses the resolution of the retry.
JobResult_NoRetry(input_path, output_path, redactions, leaked, error_code, retried_dpi) ==
    [input_path  |-> input_path,  output_path |-> output_path,
     redactions  |-> redactions,  leaked      |-> leaked,
     error_code  |-> error_code,  retried_dpi |-> None]

JobResult(input_path, output_path, redactions, leaked, error_code, retried_dpi) ==
    [input_path  |-> input_path,  output_path |-> output_path,
     redactions  |-> redactions,  leaked      |-> leaked,
     error_code  |-> error_code,  retried_dpi |-> retried_dpi]

\* NeedsRetry with the test off by one: a single redaction is retried too.
NeedsRetry_OffByOne(redactions) == redactions <= 1

\* if redactions == 0: the retry at higher DPI is taken.
NeedsRetry(redactions) == redactions = 0

\* RetryDpi without the escalation: the retry repeats the base resolution.
RetryDpi_Same(dpi) == dpi

\* retried_dpi = dpi * 2
RetryDpi(dpi) == dpi * 2

\* final_dpi that forgets the retry: the scan always uses the base dpi.
final_dpi_Base(retried_dpi, dpi) == dpi

\* final_dpi = retried_dpi if retried_dpi else dpi
final_dpi(retried_dpi, dpi) == IF Truthy(retried_dpi) THEN retried_dpi[1] ELSE dpi

\* ScanRuns without the redactions == 0 branch in front of it.
ScanRuns_IgnoresCount(redactions, verify) == verify

\* Whether the verification scan is run: the elif verify branch.
ScanRuns(redactions, verify) == redactions # 0 /\ verify

\* DeriveErrorCode that lets a single surviving match pass.
DeriveErrorCode_Lenient(redactions, verify, leaked) ==
    IF redactions = 0 THEN EXIT_NO_MATCHES
    ELSE IF verify /\ leaked > 1 THEN EXIT_VERIFICATION_FAILED
    ELSE EXIT_SUCCESS

\* "Determine error code", given the count the scan returned (0 when the
\* scan did not run).
DeriveErrorCode(redactions, verify, leaked) ==
    IF redactions = 0 THEN EXIT_NO_MATCHES
    ELSE IF verify /\ leaked > 0 THEN EXIT_VERIFICATION_FAILED
    ELSE EXIT_SUCCESS

\* get_worker_count without the lower clamp.
get_worker_count_NoFloor(jobs_arg, num_jobs, os_cpu_count) ==
    LET cpu_count == IF Truthy(os_cpu_count) THEN os_cpu_count[1] ELSE 1
        workers   == IF jobs_arg = None THEN Max2(1, cpu_count \div 2) ELSE jobs_arg[1]
    IN  Min2(Min2(workers, num_jobs), cpu_count)

\* cpu_count = os.cpu_count() or 1
CpuCount(os_cpu_count) == IF Truthy(os_cpu_count) THEN os_cpu_count[1] ELSE 1

get_worker_count(jobs_arg, num_jobs, os_cpu_count) ==
    LET cpu_count == CpuCount(os_cpu_count)
        workers   == IF jobs_arg = None THEN Max2(1, cpu_count \div 2) ELSE jobs_arg[1]
    IN  Max2(1, Min2(Min2(workers, num_jobs), cpu_count))

(***************************************************************************)
(* main: result handling and exit classification.                          *)
(***************************************************************************)
LogLine(level, event, path) == [level |-> level, event |-> event, path |-> path]

\* handle_result: the lines logged and the entries appended to the two
\* failure lists, as a record of the three sequences after the call.
handle_result(result, no_verify, lines, verification_failures, no_match_failures) ==
    LET first == LogLine("info",
                         IF Truthy(result.retried_dpi) THEN "redactions, retried"
                                                       ELSE "redactions",
                         result.input_path)
    IN  IF result.error_code = EXIT_NO_MATCHES
        THEN [lines |-> lines \o <<first, LogLine("warning", "NO MATCHES", result.input_path)>>,
              verification_failures |-> verification_failures,
              no_match_failures |-> Append(no_match_failures, result.input_path)]
        ELSE IF result.error_code = EXIT_VERIFICATION_FAILED
        THEN [lines |-> lines \o <<first, LogLine("error", "VERIFY FAILED", result.output_path)>>,
              verification_failures |->
                  Append(verification_failures, <<result.output_path, result.leaked>>),
              no_match_failures |-> no_match_failures]
        ELSE IF ~no_verify /\ result.redactions > 0
        THEN [lines |-> lines \o <<first, LogLine("info", "VERIFY OK", result.output_path)>>,
              verification_failures |-> verification_failures,
              no_match_failures |-> no_match_failures]
        ELSE [lines |-> Append(lines, first),
              verification_failures |-> verification_failures,
              no_match_failures |-> no_match_failures]

\* Summary without the list of the documents in which nothing matched.
Summary_DropsNoMatch(verification_failures, no_match_failures) ==
    IF verification_failures # <<>>
    THEN <<LogLine("error", "", None),
           LogLine("error", "Verification failed for file(s):",
                   <<"count", Len(verification_failures)>>)>>
         \o [k \in 1..Len(verification_failures) |->
                LogLine("error", "verification failure listed",
                        verification_failures[k][1])]
    ELSE <<>>

\* The lines of the batch summary: the verification failures, then the
\* documents without a match (of a listed verification failure the path is
\* kept, the count printed after it is not).
Summary(verification_failures, no_match_failures) ==
    (IF verification_failures # <<>>
     THEN <<LogLine("error", "", None),
            LogLine("error", "Verification failed for file(s):",
                    <<"count", Len(verification_failures)>>)>>
          \o [k \in 1..Len(verification_failures) |->
                 LogLine("error", "verification failure listed",
                         verification_failures[k][1])]
     ELSE <<>>)
    \o
    (IF no_match_failures # <<>>
     THEN <<LogLine("warning", "", None),
            LogLine("warning", "No matches found in file(s):",
                    <<"count", Len(no_match_failures)>>)>>
          \o [k \in 1..Len(no_match_failures) |->
                 LogLine("warning", "no match listed", no_match_failures[k])]
     ELSE <<>>)

\* The loop over the results with the results in the order of completion:
\* of the results that are there, one of a job not yet passed.
Yielded_AsCompleted(results, next) ==
    IF \E k \in next..Len(results) : results[k] # None
    THEN SetMax({k \in next..Len(results) : results[k] # None})
    ELSE 0

\* The job whose result the loop over the results takes now: the results
\* come in the order of job_args, and the loop waits (0) while the next one
\* is not there.
Yielded(results, next) ==
    IF next <= Len(results) /\ results[next] # None THEN next ELSE 0

\* The loop over the results that never ends.
Exhausted_Never(next, num_jobs) == next > num_jobs + 1

\* The loop over the results that ends one result early.
Exhausted_OneEarly(next, num_jobs) == next >= num_jobs

\* The loop over the results has taken the last one: next counts from 1.
Exhausted(next, num_jobs) == next > num_jobs

\* ExitCode that tests the no-match list first.
ExitCode_NoMatchFirst(verification_failures, no_match_failures, is_relaxed) ==
    IF no_match_failures # <<>> /\ ~is_relaxed THEN EXIT_NO_MATCHES
    ELSE IF verification_failures # <<>> THEN EXIT_VERIFICATION_FAILED
    ELSE EXIT_SUCCESS

\* "Report and exit with appropriate code".
ExitCode(verification_failures, no_match_failures, is_relaxed) ==
    LET after_verify == IF verification_failures # <<>> THEN EXIT_VERIFICATION_FAILED
                        ELSE EXIT_SUCCESS
    IN  IF no_match_failures # <<>> /\ ~is_relaxed /\ after_verify = EXIT_SUCCESS
        THEN EXIT_NO_MATCHES
        ELSE after_verify

(***************************************************************************)
(* The inputs of a run: the documents and pattern lists the model draws    *)
(* from.  Page content is given in pixels at DefaultDpi.                   *)
(***************************************************************************)
PageSize == <<200, 60>>

\* A word of normal print (12 pixels high at DefaultDpi) and one of small
\* print (6 pixels high, legible only at twice DefaultDpi).
Big(text, left) == Word(text, left, 10, 20, 12)

Small(text, left) == Word(text, left, 5, 10, 6)

InputPage(words) == Page(DefaultDpi, PageSize, words, {})

\* "12 3-4 56": redacting 3-4 leaves 12 and 56, which read 1256.
DocLeak ==
    Document(<<InputPage(<<Big(<<"1", "2">>, 10), Big(<<"3", "-", "4">>, 40),
                          Big(<<"5", "6">>, 70)>>)>>)

\* Two pages with one match each and nothing else to find; the match of
\* the second page is over two words.
DocClean ==
    Document(<<InputPage(<<Big(<<"a", "b">>, 10), Big(<<"3", "4">>, 40),
                          Big(<<"c", "d">>, 70)>>),
               InputPage(<<Big(<<"3">>, 10), Big(<<"4">>, 40)>>)>>)

\* A match in small print.
DocSmall == Document(<<InputPage(<<Small(<<"3", "4">>, 5)>>)>>)

\* DocLeak in small print.
DocSmallLeak ==
    Document(<<InputPage(<<Small(<<"1", "2">>, 5), Small(<<"3", "4">>, 20),
                          Small(<<"5", "6">>, 35)>>)>>)

\* A blank page and a page without any match.
DocNoMatch ==
    Document(<<InputPage(<<>>),
               InputPage(<<Big(<<"a", "b">>, 10), Big(<<"c", "d">>, 40)>>)>>)

Catalogue == {NoFile, DocLeak, DocClean, DocSmall, DocSmallLeak, DocNoMatch}

\* -m 34 -m 1256; the same after a pattern that does not compile; a
\* pattern list none of whose patterns compiles; no pattern at all.
PatternLists ==
    {<<Literal(<<"3", "4">>), Literal(<<"1", "2", "5", "6">>)>>,
     <<Malformed, Literal(<<"3", "4">>), Literal(<<"1", "2", "5", "6">>)>>,
     <<Malformed>>,
     <<>>}

\* The values of --jobs the run is started with.
JobsArgs == {None, Some(1), Some(MaxJobs)}

\* os.cpu_count() of the machine of the run.
HostCpus == Some(MaxCpu)

input_path(j) == <<"in", j>>

output_path(j) == <<"out", j>>

(***************************************************************************)
(* State.                                                                  *)
(***************************************************************************)
VARIABLES
    patterns,               \* the pattern list of the run
    no_verify,              \* args.no_verify
    relaxed,                \* args.relaxed
    jobs_arg,               \* args.jobs
    inputs,                 \* inputs[j]: the file at input_path(j)
    output,                 \* output[j]: the file at output_path(j)
    pc,                     \* main's position
    job_args,               \* the tuples handed to _process_single_pdf
    num_workers,
    job,                    \* job[j]: the state of the call for job_args[j]
    results,                \* results[j]: the JobResult the call returned
    next,                   \* the job whose result main takes next
    handled,                \* the results handle_result was called with
    lines,                  \* the lines logged
    verification_failures,
    no_match_failures,
    exit_status,            \* the status the process ended with
    wc,                     \* arguments and result of a get_worker_count call
    app                     \* arguments and results of a function applied on its own

vars == <<patterns, no_verify, relaxed, jobs_arg, inputs, output, pc, job_args,
          num_workers, job, results, next, handled, lines,
          verification_failures, no_match_failures, exit_status, wc, app>>

args == <<patterns, no_verify, relaxed, jobs_arg, inputs>>

aggregate == <<handled, lines, verification_failures, no_match_failures>>

NumJobs == Len(inputs)

NoCall == [jobs_arg |-> None, num_jobs |-> 0, os_cpu_count |-> None, result |-> None]

NoApp == None

Init ==
    /\ patterns \in PatternLists
    /\ no_verify \in BOOLEAN
    /\ relaxed \in BOOLEAN
    /\ jobs_arg \in JobsArgs
    /\ inputs \in UNION {[1..n -> Catalogue] : n \in 0..MaxJobs}
    /\ output = [j \in 1..Len(inputs) |-> NoFile]
    /\ pc = "start"
    /\ job_args = <<>>
    /\ num_workers = 0
    /\ job = <<>>
    /\ results = <<>>
    /\ next = 1
    /\ handled = <<>>
    /\ lines = <<>>
    /\ verification_failures = <<>>
    /\ no_match_failures = <<>>
    /\ exit_status = None
    /\ wc = NoCall
    /\ app = NoApp

(***************************************************************************)
(* main, up to the dispatch.                                               *)
(***************************************************************************)
\* The sys.exit(EXIT_CONFIG_ERROR) and sys.exit(1) before any job is built:
\* no pattern, no pattern that compiles, no PDF file.
ConfigExit ==
    /\ pc = "start"
    /\ \/ patterns = <<>>
       \/ compile_grammars(patterns) = <<>>
       \/ inputs = <<>>
    /\ pc' = "exit"
    /\ exit_status' = Some(EXIT_CONFIG_ERROR)
    /\ UNCHANGED <<args, output, job_args, num_workers, job, results, next,
                   aggregate, wc, app>>

\* "Build job arguments" and "Determine parallelism".
Dispatch ==
    /\ pc = "start"
    /\ patterns # <<>>
    /\ compile_grammars(patterns) # <<>>
    /\ inputs # <<>>
    /\ job_args' = [j \in 1..NumJobs |->
                       [input_path |-> input_path(j), output_path |-> output_path(j),
                        patterns |-> patterns, dpi |-> DefaultDpi,
                        verify |-> ~no_verify]]
    /\ num_workers' = get_worker_count(jobs_arg, NumJobs, HostCpus)
    /\ job' = [j \in 1..NumJobs |->
                  [state |-> "queued", redactions |-> 0, retried_dpi |-> None,
                   calls |-> <<>>]]
    /\ results' = [j \in 1..NumJobs |-> None]
    /\ pc' = "run"
    /\ UNCHANGED <<args, output, next, aggregate, exit_status, wc, app>>

(***************************************************************************)
(* _process_single_pdf, one action per call of redact_pdf and one for the  *)
(* rest.  With num_workers == 1 main runs the calls itself, one after the  *)
(* other; otherwise the pool starts them in submission order on at most    *)
(* num_workers workers.                                                    *)
(***************************************************************************)
Running(j) == job[j].state \in {"retry", "derive"}

CanStart(j) ==
    /\ pc = "run"
    /\ job[j].state = "queued"
    /\ IF num_workers = 1
       THEN j = next
       ELSE /\ \A i \in 1..(j - 1) : job[i].state # "queued"
            /\ Cardinality({i \in 1..NumJobs : Running(i)}) < num_workers

Call(op, path, dpi, ret) == [op |-> op, path |-> path, dpi |-> dpi, ret |-> ret]

\* The first redact_pdf on a path fitz.open cannot read: the exception
\* leaves _process_single_pdf.
FirstPassRaises(j) ==
    /\ CanStart(j)
    /\ ~inputs[j].readable
    /\ job' = [job EXCEPT ![j].state = "raised"]
    /\ UNCHANGED <<args, output, pc, job_args, num_workers, results, next,
                   aggregate, exit_status, wc, app>>

\* "First attempt at base DPI".
FirstPass(j) ==
    /\ CanStart(j)
    /\ inputs[j].readable
    /\ LET a        == job_args[j]
           grammars == compile_grammars(a.patterns)
           pass     == redact_pdf(inputs[j], grammars, a.dpi)
       IN  /\ output' = [output EXCEPT ![j] = pass.output]
           /\ job' = [job EXCEPT ![j] =
                        [state       |-> IF NeedsRetry(pass.count) THEN "retry" ELSE "derive",
                         redactions  |-> pass.count,
                         retried_dpi |-> None,
                         calls       |-> <<Call("redact_pdf", a.input_path, a.dpi,
                                                pass.count)>>]]
    /\ UNCHANGED <<args, pc, job_args, num_workers, results, next, aggregate,
                   exit_status, wc, app>>

\* "Retry at higher DPI if no matches found".
SecondPass(j) ==
    /\ pc \in {"run", "crashed"}
    /\ job[j].state = "retry"
    /\ LET a        == job_args[j]
           grammars == compile_grammars(a.patterns)
           pass     == redact_pdf(inputs[j], grammars, RetryDpi(a.dpi))
       IN  /\ output' = [output EXCEPT ![j] = pass.output]
           /\ job' = [job EXCEPT ![j] =
                        [state       |-> "derive",
                         redactions  |-> pass.count,
                         retried_dpi |-> Some(RetryDpi(a.dpi)),
                         calls       |-> Append(job[j].calls,
                                                Call("redact_pdf", a.input_path,
                                                     RetryDpi(a.dpi), pass.count))]]
    /\ UNCHANGED <<args, pc, job_args, num_workers, results, next, aggregate,
                   exit_status, wc, app>>

\* "Determine error code", with the verification scan, and the return.
Finish(j) ==
    /\ pc \in {"run", "crashed"}
    /\ job[j].state = "derive"
    /\ LET a        == job_args[j]
           grammars == compile_grammars(a.patterns)
           scans    == ScanRuns(job[j].redactions, a.verify)
           dpi      == final_dpi(job[j].retried_dpi, a.dpi)
           leaked   == IF scans THEN scan_pdf(output[j], grammars, dpi) ELSE 0
       IN  /\ results' = [results EXCEPT ![j] =
                            Some(JobResult(a.input_path, a.output_path,
                                           job[j].redactions, leaked,
                                           DeriveErrorCode(job[j].redactions, a.verify,
                                                           leaked),
                                           job[j].retried_dpi))]
           /\ job' = [job EXCEPT ![j].state = "returned",
                                 ![j].calls =
                                     IF scans
                                     THEN Append(@, Call("scan_pdf", a.output_path, dpi,
                                                         leaked))
                                     ELSE @]
    /\ UNCHANGED <<args, output, pc, job_args, num_workers, next, aggregate,
                   exit_status, wc, app>>

(***************************************************************************)
(* main: the loop over the results, and the report.                        *)
(***************************************************************************)
\* handle_result(result) on the next result, in submission order.
HandleNext ==
    /\ pc = "run"
    /\ Yielded(results, next) # 0
    /\ LET result == results[Yielded(results, next)][1]
           after  == handle_result(result, no_verify, lines, verification_failures,
                                   no_match_failures)
       IN  /\ handled' = Append(handled, result)
           /\ lines' = after.lines
           /\ verification_failures' = after.verification_failures
           /\ no_match_failures' = after.no_match_failures
    /\ next' = next + 1
    /\ UNCHANGED <<args, output, pc, job_args, num_workers, job, results,
                   exit_status, wc, app>>

\* The exception of the next call reaches main, which has no handler for it:
\* the calls not yet started are cancelled and the process ends with a
\* traceback (status 1).
Uncaught ==
    /\ pc = "run"
    /\ next <= NumJobs
    /\ job[next].state = "raised"
    /\ pc' = "crashed"
    /\ job' = [j \in 1..NumJobs |->
                  IF job[j].state = "queued"
                  THEN [job[j] EXCEPT !.state = "cancelled"]
                  ELSE job[j]]
    /\ exit_status' = Some(1)
    /\ UNCHANGED <<args, output, job_args, num_workers, results, next, aggregate, wc, app>>

\* "Report and exit with appropriate code".
Report ==
    /\ pc = "run"
    /\ Exhausted(next, NumJobs)
    /\ pc' = "exit"
    /\ lines' = lines \o Summary(verification_failures, no_match_failures)
    /\ exit_status' = Some(ExitCode(verification_failures, no_match_failures, relaxed))
    /\ UNCHANGED <<args, output, job_args, num_workers, job, results, next,
                   handled, verification_failures, no_match_failures, wc, app>>

Next ==
    \/ ConfigExit
    \/ Dispatch
    \/ \E j \in 1..NumJobs : FirstPassRaises(j)
    \/ \E j \in 1..NumJobs : FirstPass(j)
    \/ \E j \in 1..NumJobs : SecondPass(j)
    \/ \E j \in 1..NumJobs : Finish(j)
    \/ HandleNext
    \/ Uncaught
    \/ Report

Spec == Init /\ [][Next]_vars

\* main goes on whenever it can: it exits or dispatches, takes the next
\* result when it is there, ends on an exception that reaches it, and
\* reports after the loop.  Nothing is assumed of the jobs.
MainFairness ==
    /\ WF_vars(ConfigExit)
    /\ WF_vars(Dispatch)
    /\ WF_vars(HandleNext)
    /\ WF_vars(Uncaught)
    /\ WF_vars(Report)

\* The runs with verification and without --relaxed: the two flags play no
\* part in the loop over the results.
InitFair == Init /\ ~no_verify /\ ~relaxed

SpecFair == InitFair /\ [][Next]_vars /\ MainFairness

(***************************************************************************)
(* get_worker_count on its own: the arguments are drawn from the sets      *)
(* below and the function is applied once.                                 *)
(***************************************************************************)
RequestedCounts == {None} \cup {Some(v) : v \in (-2)..(MaxCpu + 1)}

JobCounts == 0..(MaxCpu + 1)

CpuCounts == {None} \cup {Some(v) : v \in 1..MaxCpu}

\* main has not started: the state of a process that only calls
\* get_worker_count.
MainIdle ==
    /\ patterns = <<>>
    /\ no_verify = FALSE
    /\ relaxed = FALSE
    /\ jobs_arg = None
    /\ inputs = <<>>
    /\ output = <<>>
    /\ pc = "start"
    /\ job_args = <<>>
    /\ num_workers = 0
    /\ job = <<>>
    /\ results = <<>>
    /\ next = 1
    /\ handled = <<>>
    /\ lines = <<>>
    /\ verification_failures = <<>>
    /\ no_match_failures = <<>>
    /\ exit_status = None

InitWorkers ==
    /\ MainIdle
    /\ app = NoApp
    /\ wc \in [jobs_arg : RequestedCounts, num_jobs : JobCounts,
               os_cpu_count : CpuCounts, result : {None}]

WorkerCountCall ==
    /\ wc.result = None
    /\ wc' = [wc EXCEPT !.result =
                 Some(get_worker_count(wc.jobs_arg, wc.num_jobs, wc.os_cpu_count))]
    /\ UNCHANGED <<args, output, pc, job_args, num_workers, job, results, next,
                   aggregate, exit_status, app>>

NextWorkers == WorkerCountCall

SpecWorkers == InitWorkers /\ [][NextWorkers]_vars

(***************************************************************************)
(* build_stream and find_matches on their own: the words of a page and the *)
(* grammars are drawn from the sets below; build_stream is applied to the  *)
(* words, then find_matches to the stream.                                 *)
(***************************************************************************)
\* Word texts as OCR gives them: digits, a hyphen inside, nothing but a
\* hyphen, letters of both cases.
WordTexts ==
    {<<"1", "2">>, <<"3", "-", "4">>, <<"5", "6">>, <<"-">>, <<"a", "B">>}

SeqsUpTo(S, n) == UNION {[1..k -> S] : k \in 0..n}

\* The words of a page; their place on the page plays no part here.
TextWords(texts) == [i \in 1..Len(texts) |-> Word(texts[i], 0, 0, 1, 1)]

WordLists == {TextWords(texts) : texts \in SeqsUpTo(WordTexts, MaxWords)}

\* Grammars that compiled.
Grammars ==
    {Literal(<<"2", "3", "4", "5">>), Literal(<<"A", "b">>), DigitRun, NoRule}

GrammarLists == SeqsUpTo(Grammars, MaxGrammars)

InitText ==
    /\ MainIdle
    /\ wc = NoCall
    /\ app \in [words : WordLists, grammars : GrammarLists,
                stream : {None}, matched : {None}]

\* stream = build_stream(words)
BuildStreamCall ==
    /\ app.stream = None
    /\ app' = [app EXCEPT !.stream = Some(build_stream(app.words))]
    /\ UNCHANGED <<args, output, pc, job_args, num_workers, job, results, next,
                   aggregate, exit_status, wc>>

\* matched = find_matches(stream, grammars)
FindMatchesCall ==
    /\ app.stream # None
    /\ app.matched = None
    /\ app' = [app EXCEPT !.matched = Some(find_matches(app.stream[1], app.grammars))]
    /\ UNCHANGED <<args, output, pc, job_args, num_workers, job, results, next,
                   aggregate, exit_status, wc>>

NextText == BuildStreamCall \/ FindMatchesCall

SpecText == InitText /\ [][NextText]_vars

(***************************************************************************)
(* redact_image on its own: the caller holds one image object, object 1 of *)
(* the heap, and calls redact_image(img, grammars) once.                   *)
(***************************************************************************)
\* The pages of the documents rendered at the base and at the retry
\* resolution.
PageImages ==
    UNION {{render_page(doc.pages[i], dpi) :
               i \in 1..Len(doc.pages), dpi \in {DefaultDpi, RetryDpi(DefaultDpi)}} :
           doc \in Catalogue}

PageGrammarLists == GrammarLists \cup {compile_grammars(p) : p \in PatternLists}

InitPage ==
    /\ MainIdle
    /\ wc = NoCall
    /\ \E img \in PageImages, grammars \in PageGrammarLists :
          app = [heap |-> <<img>>, img |-> 1, given |-> img,
                 grammars |-> grammars, ret |-> None]

\* ret = redact_image(img, grammars): the early returns hand back the
\* object given, draw_redactions a copy of it with the boxes filled.
RedactImageCall ==
    /\ app.ret = None
    /\ LET img    == app.heap[app.img]
           result == redact_image(img, app.grammars)
           target == IF ReturnsGiven(img, app.grammars)
                     THEN [heap |-> app.heap, id |-> app.img]
                     ELSE copy(app.heap, app.img)
       IN  app' = [app EXCEPT
                      !.heap = [target.heap EXCEPT ![target.id] = result[1]],
                      !.ret  = Some([img |-> target.id, count |-> result[2]])]
    /\ UNCHANGED <<args, output, pc, job_args, num_workers, job, results, next,
                   aggregate, exit_status, wc>>

NextPage == RedactImageCall

SpecPage == InitPage /\ [][NextPage]_vars

(***************************************************************************)
(* group_adjacent_words and compute_box on their own: words with their     *)
(* rectangles, a set of matched indices and an image size are drawn from   *)
(* the sets below; the indices are grouped, then every group gets its box. *)
(***************************************************************************)
\* Where a word can be: at the left of a line, next to it (2 pixels lower),
\* further on and half a word's height lower, far to the right on the same
\* line, and on the line below.
Placed(left, top) == Word(<<"1">>, left, top, 20, 12)

PlacedWords ==
    {Placed(0, 0), Placed(25, 2), Placed(50, 6), Placed(150, 0), Placed(0, 30)}

PlacedWordLists == SeqsUpTo(PlacedWords, MaxWords)

\* An image that holds every word with room to spare, one that holds them
\* with no room for the padding, and one smaller than the words' extent.
ImageSizes == {<<200, 60>>, <<170, 42>>, <<30, 10>>}

InitGeometry ==
    /\ MainIdle
    /\ wc = NoCall
    /\ \E words \in PlacedWordLists, img_size \in ImageSizes :
          \E matched \in SUBSET (0..(Len(words) - 1)) :
             app = [words |-> words, matched |-> matched, img_size |-> img_size,
                    groups |-> None, boxes |-> None, legacy |-> None]

\* groups = group_adjacent_words(matched, words)
GroupCall ==
    /\ app.groups = None
    /\ app' = [app EXCEPT !.groups = Some(group_adjacent_words(app.matched, app.words))]
    /\ UNCHANGED <<args, output, pc, job_args, num_workers, job, results, next,
                   aggregate, exit_status, wc>>

\* boxes = [compute_box(words, group, img.size) for group in groups]
BoxCall ==
    /\ app.groups # None
    /\ app.boxes = None
    /\ app' = [app EXCEPT !.boxes =
                  Some([g \in 1..Len(app.groups[1]) |->
                           compute_box(app.words, app.groups[1][g], app.img_size, Pad)])]
    /\ UNCHANGED <<args, output, pc, job_args, num_workers, job, results, next,
                   aggregate, exit_status, wc>>

\* The same indices and words given to the grouping of the earlier
\* revisions.
LegacyGroupCall ==
    /\ app.legacy = None
    /\ app' = [app EXCEPT !.legacy =
                  Some(legacy_group_adjacent_words(app.matched, app.words))]
    /\ UNCHANGED <<args, output, pc, job_args, num_workers, job, results, next,
                   aggregate, exit_status, wc>>

NextGeometry == GroupCall \/ BoxCall \/ LegacyGroupCall

SpecGeometry == InitGeometry /\ [][NextGeometry]_vars

(***************************************************************************)
(* The steps of redact_image after OCR, one at a time, on the words of a   *)
(* line: build_stream, find_matches, group_adjacent_words, and compute_box *)
(* for every group.                                                        *)
(***************************************************************************)
\* "SSN" and "123-45-6789" as OCR places them, a lone hyphen further right
\* and a number after it.
LineWords ==
    {Word(<<"S", "S", "N">>, 0, 0, 40, 10),
     Word(<<"1", "2", "3", "-", "4", "5", "-", "6", "7", "8", "9">>, 45, 0, 100, 10),
     Word(<<"-">>, 150, 0, 10, 10),
     Word(<<"1", "2">>, 165, 0, 20, 10)}

\* The words of a line in any order OCR may give them, every word once.
LineWordLists ==
    {words \in SeqsUpTo(LineWords, MaxWords) :
        \A i \in 1..Len(words) : \A k \in 1..Len(words) :
            words[i] = words[k] => i = k}

LineGrammars ==
    {DigitRun, Literal(<<"1", "2", "3", "4", "5", "6", "7", "8", "9">>), NoRule}

LineGrammarLists == SeqsUpTo(LineGrammars, MaxGrammars)

LineImageSize == <<200, 20>>

InitLine ==
    /\ MainIdle
    /\ wc = NoCall
    /\ \E words \in LineWordLists, grammars \in LineGrammarLists :
          app = [words |-> words, grammars |-> grammars, img_size |-> LineImageSize,
                 stream |-> None, matched |-> None, groups |-> None, boxes |-> None]

\* stream = build_stream(words)
StreamStep ==
    /\ app.stream = None
    /\ app' = [app EXCEPT !.stream = Some(build_stream(app.words))]
    /\ UNCHANGED <<args, output, pc, job_args, num_workers, job, results, next,
                   aggregate, exit_status, wc>>

\* matched = find_matches(stream, grammars)
MatchStep ==
    /\ app.stream # None
    /\ app.matched = None
    /\ app' = [app EXCEPT !.matched = Some(find_matches(app.stream[1], app.grammars))]
    /\ UNCHANGED <<args, output, pc, job_args, num_workers, job, results, next,
                   aggregate, exit_status, wc>>

\* groups = group_adjacent_words(matched, words)
GroupStep ==
    /\ app.matched # None
    /\ app.groups = None
    /\ app' = [app EXCEPT !.groups =
                  Some(group_adjacent_words(app.matched[1], app.words))]
    /\ UNCHANGED <<args, output, pc, job_args, num_workers, job, results, next,
                   aggregate, exit_status, wc>>

\* boxes = [compute_box(words, group, img.size) for group in groups]
BoxStep ==
    /\ app.groups # None
    /\ app.boxes = None
    /\ app' = [app EXCEPT !.boxes =
                  Some([g \in 1..Len(app.groups[1]) |->
                           compute_box(app.words, app.groups[1][g], app.img_size, Pad)])]
    /\ UNCHANGED <<args, output, pc, job_args, num_workers, job, results, next,
                   aggregate, exit_status, wc>>

NextLine == StreamStep \/ MatchStep \/ GroupStep \/ BoxStep

SpecLine == InitLine /\ [][NextLine]_vars

(***************************************************************************)
(* Properties.                                                             *)
(***************************************************************************)
Jobs == DOMAIN results

Dispatched == job_args # <<>>

Returned(j) == results[j] # None

ResultOf(j) == results[j][1]

MainEnded == pc \in {"exit", "crashed"}

IsRedactCall(c) == c.op = "redact_pdf"

IsScanCall(c) == c.op = "scan_pdf"

RedactCalls(j) == SelectSeq(job[j].calls, IsRedactCall)

ScanCalls(j) == SelectSeq(job[j].calls, IsScanCall)

\* The resolution of the pass that wrote the output of a returned job.
UsedDpi(j) ==
    IF ResultOf(j).retried_dpi # None THEN ResultOf(j).retried_dpi[1]
    ELSE job_args[j].dpi

\* What a scan of job j's output file finds at the resolution used.
Rescan(j) == scan_pdf(output[j], compile_grammars(job_args[j].patterns), UsedDpi(j))

HandledOnce(j) ==
    Cardinality({k \in 1..Len(handled) : handled[k].input_path = input_path(j)}) = 1

C2_OneResultPerJob ==
    Dispatched /\ MainEnded =>
        /\ Len(handled) = NumJobs
        /\ \A j \in Jobs : HandledOnce(j)

\* C3, as claimed: when main has ended, the result of every document that
\* can be read has been handled, whatever happened to the others.
C3_SiblingsStillHandled ==
    Dispatched /\ MainEnded =>
        \A j \in Jobs : inputs[j].readable => HandledOnce(j)

\* C4, as claimed: no call of _process_single_pdf ends with an exception.
C4_NoExceptionEscapes ==
    \A j \in Jobs : job[j].state # "raised"

\* C5: when main has reported, the exit status is 4 if a handled result has
\* error_code 4, else 3 if a handled result has error_code 3 and --relaxed
\* is not set, else 0.
C5_ExitClassification ==
    Dispatched /\ pc = "exit" =>
        exit_status =
            Some(IF \E k \in 1..Len(handled) : handled[k].error_code = 4 THEN 4
                 ELSE IF /\ \E k \in 1..Len(handled) : handled[k].error_code = 3
                         /\ ~relaxed
                      THEN 3
                 ELSE 0)

\* A relaxed run that ends with status 4 although a document had no match.
C5_Witness ==
    /\ Dispatched /\ pc = "exit" /\ relaxed
    /\ \E k \in 1..Len(handled) : handled[k].error_code = 3
    /\ \E k \in 1..Len(handled) : handled[k].leaked > 0
    /\ exit_status = Some(4)

\* C6: a returned JobResult has error_code 3 if its redaction count (the
\* count of the last pass) is 0, 4 if leaked > 0, and 0 otherwise; with
\* leaked > 0 it is neither 0 nor 3.
C6_ErrorCodeDerivation ==
    \A j \in Jobs :
        Returned(j) =>
            /\ ResultOf(j).redactions = RedactCalls(j)[Len(RedactCalls(j))].ret
            /\ ResultOf(j).error_code =
                   (IF ResultOf(j).redactions = 0 THEN 3
                    ELSE IF ResultOf(j).leaked > 0 THEN 4
                    ELSE 0)
            /\ ResultOf(j).leaked > 0 => ResultOf(j).error_code \notin {0, 3}

\* A returned result with a surviving match.
C6_Witness ==
    \E j \in Jobs :
        Returned(j) /\ ResultOf(j).leaked > 0 /\ ResultOf(j).error_code = 4

\* C7: a call makes one or two redaction passes, the first at dpi; it makes
\* the second iff the first returned 0, at 2*dpi, and the count it goes on
\* with is the count of the last pass.
C7_AtMostOneRetry ==
    \A j \in Jobs :
        job[j].state \in {"retry", "derive", "returned"} =>
            LET passes == RedactCalls(j)
            IN  /\ Len(passes) \in {1, 2}
                /\ passes[1].dpi = job_args[j].dpi
                /\ job[j].state = "retry" => Len(passes) = 1 /\ passes[1].ret = 0
                /\ job[j].state # "retry" => (Len(passes) = 2 <=> passes[1].ret = 0)
                /\ Len(passes) = 2 => passes[2].dpi = 2 * job_args[j].dpi
                /\ job[j].redactions = passes[Len(passes)].ret

\* A returned call whose second pass found nothing either, beside one whose
\* second pass found something.
C7_Witness ==
    \E i, j \in Jobs :
        /\ Returned(i) /\ Len(RedactCalls(i)) = 2 /\ RedactCalls(i)[2].ret = 0
        /\ Returned(j) /\ Len(RedactCalls(j)) = 2 /\ RedactCalls(j)[2].ret > 0

\* C8: for a document on which redact_pdf finds nothing at dpi and something
\* at 2*dpi, the returned JobResult has retried_dpi == 2*dpi, redactions > 0
\* and an error_code other than NO_MATCHES.
C8_RetryEscalation ==
    \A j \in Jobs :
        Returned(j) =>
            LET grammars == compile_grammars(job_args[j].patterns)
                dpi      == job_args[j].dpi
            IN  /\ redact_pdf(inputs[j], grammars, dpi).count = 0
                /\ redact_pdf(inputs[j], grammars, 2 * dpi).count > 0
                => /\ ResultOf(j).retried_dpi = Some(2 * dpi)
                   /\ ResultOf(j).redactions > 0
                   /\ ResultOf(j).error_code # EXIT_NO_MATCHES

\* A returned result of a document in small print.
C8_Witness ==
    \E j \in Jobs :
        /\ Returned(j)
        /\ inputs[j] = DocSmall
        /\ ResultOf(j).retried_dpi = Some(2 * DefaultDpi)
        /\ ResultOf(j).redactions = 1

\* C9: a returned call has scanned iff verify was asked for and the final
\* count is > 0; it scanned once, the file at output_path, at retried_dpi
\* after a retry and at dpi otherwise; without a scan leaked is 0.
C9_VerificationScan ==
    \A j \in Jobs :
        Returned(j) =>
            LET scans == ScanCalls(j)
            IN  /\ Len(scans) =
                       (IF job_args[j].verify /\ ResultOf(j).redactions > 0 THEN 1 ELSE 0)
                /\ Len(scans) = 1 =>
                       /\ scans[1].path = job_args[j].output_path
                       /\ scans[1].dpi =
                              (IF Len(RedactCalls(j)) = 2 THEN 2 * job_args[j].dpi
                               ELSE job_args[j].dpi)
                       /\ scans[1].ret = ResultOf(j).leaked
                       /\ ResultOf(j).leaked = Rescan(j)
                /\ Len(scans) = 0 => ResultOf(j).leaked = 0

\* A call that scanned its retried output at 2*dpi and found a match there,
\* beside one that did not scan although verify was asked for.
C9_Witness ==
    \E i, j \in Jobs :
        /\ Returned(i) /\ Len(ScanCalls(i)) = 1
        /\ ScanCalls(i)[1].dpi = 2 * DefaultDpi /\ ScanCalls(i)[1].ret > 0
        /\ Returned(j) /\ job_args[j].verify /\ Len(ScanCalls(j)) = 0

\* C10: get_worker_count returns the requested count (half the CPU count,
\* at least 1, when none is requested) cut down to num_jobs and the CPU
\* count, and 1 where that is below 1; so the result is at least 1 and,
\* for num_jobs >= 1, at most num_jobs and at most the CPU count.
C10_WorkerCountClamped ==
    wc.result # None =>
        LET cpu       == IF wc.os_cpu_count = None THEN 1 ELSE wc.os_cpu_count[1]
            requested == IF wc.jobs_arg # None THEN wc.jobs_arg[1]
                         ELSE IF cpu \div 2 >= 1 THEN cpu \div 2 ELSE 1
            upper     == SetMin({requested, wc.num_jobs, cpu})
            r         == wc.result[1]
        IN  /\ r >= 1
            /\ upper >= 1 => r = upper
            /\ upper < 1 => r = 1
            /\ wc.num_jobs >= 1 => r <= wc.num_jobs /\ r <= cpu

\* A call with a request of 0 or less, answered with 1.
C10_Witness ==
    /\ wc.result = Some(1)
    /\ wc.jobs_arg # None
    /\ wc.jobs_arg[1] <= 0
    /\ wc.num_jobs >= 2
    /\ wc.os_cpu_count # None /\ wc.os_cpu_count[1] >= 2

(***************************************************************************)
(* Properties of build_stream and find_matches.                            *)
(***************************************************************************)
\* The 0-based offset of character i of the stream within its word: the
\* characters since the first one the map gives to the same word.
RelativeOffset(stream, i) ==
    i - SetMin({k \in 0..i : stream.word_map[k + 1] = stream.word_map[i + 1]})

StreamBuilt == app.stream # None

\* C11: for every word sequence, the stream build_stream returns has as many
\* map entries as characters, a non-decreasing map, every character equal to
\* the character at the relative offset in the normalized text of the word
\* the map names, and a text that is the words' alphanumeric characters in
\* word order, case preserved.
C11_StreamMapConsistent ==
    StreamBuilt =>
        LET stream == app.stream[1]
            words  == app.words
            n      == Len(stream.text)
        IN  /\ Len(stream.word_map) = n
            /\ \A i \in 0..(n - 1) : stream.word_map[i + 1] \in 0..(Len(words) - 1)
            /\ \A i \in 0..(n - 2) : stream.word_map[i + 1] <= stream.word_map[i + 2]
            /\ \A i \in 0..(n - 1) :
                  LET source == normalize(words[stream.word_map[i + 1] + 1].text)
                  IN  /\ RelativeOffset(stream, i) < Len(source)
                      /\ stream.text[i + 1] = source[RelativeOffset(stream, i) + 1]
            /\ \A w \in 0..(Len(words) - 1) :
                  Cardinality({i \in 0..(n - 1) : stream.word_map[i + 1] = w})
                      = Len(normalize(words[w + 1].text))
            /\ stream.text =
                  SelectSeq(Flatten([w \in 1..Len(words) |-> words[w].text]), IsAlnum)

\* A stream of three words, the middle one without an alphanumeric
\* character, and a mixed-case word in it.
C11_Witness ==
    /\ StreamBuilt
    /\ Len(app.words) = 3
    /\ normalize(app.words[2].text) = <<>>
    /\ app.words[2].text # <<>>
    /\ app.words[3].text = <<"a", "B">>
    /\ app.stream[1].word_map = <<0, 0, 2, 2>>

Searched == app.matched # None

\* Grammar g of the call matches at offset start of the stream.
MatchesAt(g, start) == Match(app.grammars[g], app.stream[1].text, start) >= 0

\* Grammar g of the call raises at offset start of the stream.
RaisesAt(g, start) == Match(app.grammars[g], app.stream[1].text, start) < 0

\* The map entries of the characters the match of grammar g at start covers.
Touched(g, start) ==
    {app.stream[1].word_map[i + 1] :
        i \in start..(start + Match(app.grammars[g], app.stream[1].text, start) - 1)}

Offsets == 0..(Len(app.stream[1].text) - 1)

\* C12: find_matches returns exactly the set of the word_map[i] such that
\* some grammar matches at some offset start of the text with a span
\* [start, start+len) that holds i: every word a span touches, also across
\* word boundaries, and no word that no span touches.
C12_ExactMatchSet ==
    Searched =>
        LET stream == app.stream[1]
        IN  app.matched[1] =
                {stream.word_map[i + 1] :
                    i \in {j \in 0..(Len(stream.word_map) - 1) :
                             \E g \in 1..Len(app.grammars) :
                               \E start \in Offsets :
                                  /\ MatchesAt(g, start)
                                  /\ start <= j
                                  /\ j < start + Match(app.grammars[g], stream.text, start)}}

\* A span over the first two of three words, the third one untouched.
C12_Witness ==
    /\ Searched
    /\ Len(app.words) = 3
    /\ normalize(app.words[3].text) # <<>>
    /\ \E g \in 1..Len(app.grammars) :
          /\ MatchesAt(g, 0)
          /\ Touched(g, 0) = {0, 1}
    /\ app.matched[1] = {0, 1}

\* Position (g, start) of the two loops comes before position (h, at).
Before(g, start, h, at) == g < h \/ (g = h /\ start < at)

\* C15: an exception a grammar raises at one offset counts as no match at
\* that offset: find_matches returns a set of word indices, and the set
\* holds the words of every match found before the exception and of every
\* match at a later offset or with a later grammar.
C15_ExceptionIsNoMatch ==
    Searched =>
        /\ app.matched[1] \subseteq 0..(Len(app.words) - 1)
        /\ \A g \in 1..Len(app.grammars) : \A start \in Offsets :
              RaisesAt(g, start) =>
                 \A h \in 1..Len(app.grammars) : \A at \in Offsets :
                    /\ (Before(h, at, g, start) \/ Before(g, start, h, at))
                    /\ MatchesAt(h, at)
                    => Touched(h, at) \subseteq app.matched[1]

\* The first grammar raises at every offset, the second raises at offset 0
\* and matches at offset 1, over three words.
C15_Witness ==
    /\ Searched
    /\ Len(app.grammars) = 2
    /\ \A start \in Offsets : RaisesAt(1, start)
    /\ RaisesAt(2, 0)
    /\ MatchesAt(2, 1)
    /\ app.matched[1] = {0, 1, 2}

(***************************************************************************)
(* Properties of redact_image.                                             *)
(***************************************************************************)
Redacted == app.ret # None

\* What OCR reads on the image given, and its stream.
GivenWords == ocr_page(app.given)

GivenStream == build_stream(GivenWords)

NothingMatches ==
    \A g \in 1..Len(app.grammars) : \A start \in 0..(Len(GivenStream.text) - 1) :
        Match(app.grammars[g], GivenStream.text, start) < 0

\* The call handed back an image with the pixels of the one given, and the
\* count 0.
ReturnedUnchanged ==
    /\ app.ret[1].count = 0
    /\ app.heap[app.ret[1].img] = app.given

\* C13: if no grammar matches at any offset of the stream, find_matches
\* returns the empty set and redact_image returns the image with no pixel
\* changed and the count 0; the same when OCR returns no words.
C13_NoMatchNoChange ==
    Redacted =>
        /\ NothingMatches =>
              /\ find_matches(GivenStream, app.grammars) = {}
              /\ ReturnedUnchanged
        /\ GivenWords = <<>> => ReturnedUnchanged

\* OCR read words and there are grammars, none of which matches anywhere.
C13_Witness ==
    /\ Redacted
    /\ Len(GivenWords) >= 2
    /\ app.grammars # <<>>
    /\ NothingMatches
    /\ app.ret[1].count = 0

\* The boxes of the groups of matched words on the image given.
GivenBoxes ==
    LET groups == group_adjacent_words(find_matches(GivenStream, app.grammars),
                                       GivenWords)
    IN  {compute_box(GivenWords, groups[g], app.given.size, Pad) :
            g \in 1..Len(groups)}

\* C18: redact_image never changes the image it is given; when it redacts
\* at least one group it returns a new image, the given one with every box
\* filled, and the caller's image keeps every pixel.
C18_CopyOnRedact ==
    Redacted =>
        /\ app.heap[app.img] = app.given
        /\ app.ret[1].count > 0 =>
              LET returned == app.heap[app.ret[1].img]
              IN  /\ app.ret[1].img # app.img
                  /\ returned.size = app.given.size
                  /\ returned.words = app.given.words
                  /\ returned.boxes = app.given.boxes \cup GivenBoxes
                  /\ GivenBoxes # {}
                  /\ returned # app.given

\* A call that redacted a group.
C18_Witness ==
    /\ Redacted
    /\ app.ret[1].count > 0
    /\ app.ret[1].img = 2
    /\ \E box \in app.heap[2].boxes : \E k \in 1..Len(GivenWords) :
          Covers(box, GivenWords[k])

(***************************************************************************)
(* Properties of group_adjacent_words and compute_box.                     *)
(***************************************************************************)
Grouped == app.groups # None

GroupSet(g) == Range(app.groups[1][g])

GroupIds == 1..Len(app.groups[1])

\* No group is empty, no index is in two groups, and the groups together
\* hold the matched indices and nothing else.
GroupsPartition ==
    /\ \A g \in GroupIds : app.groups[1][g] # <<>>
    /\ \A g \in GroupIds : \A h \in GroupIds : g # h => GroupSet(g) \cap GroupSet(h) = {}
    /\ \A g \in GroupIds : Cardinality(GroupSet(g)) = Len(app.groups[1][g])
    /\ UNION {GroupSet(g) : g \in GroupIds} = app.matched

\* C16, as claimed: the groups partition the matched indices and every
\* group is a run of consecutive indices in ascending order.
C16_GroupsAreIndexRuns ==
    Grouped =>
        /\ GroupsPartition
        /\ \A g \in GroupIds : \A k \in 1..(Len(app.groups[1][g]) - 1) :
              app.groups[1][g][k + 1] = app.groups[1][g][k] + 1

\* C16, amended: the groups partition the matched indices, every group is
\* in ascending order and is a run of the sorted matched indices (no
\* matched index of another group lies between two of its members), and
\* the groups follow one another in ascending order.
C16_GroupsAreRunsOfMatched ==
    Grouped =>
        /\ GroupsPartition
        /\ \A g \in GroupIds : \A k \in 1..(Len(app.groups[1][g]) - 1) :
              app.groups[1][g][k] < app.groups[1][g][k + 1]
        /\ \A g \in GroupIds : \A m \in app.matched :
              (SetMin(GroupSet(g)) <= m /\ m <= SetMax(GroupSet(g))) => m \in GroupSet(g)
        /\ \A g \in GroupIds : \A h \in GroupIds :
              g < h => SetMax(GroupSet(g)) < SetMin(GroupSet(h))

\* Words 0 and 2 are matched and close on one line, word 1 between them is
\* not matched: one group holds 0 and 2.
C16_Witness ==
    /\ Grouped
    /\ app.matched = {0, 2}
    /\ app.groups[1] = <<<<0, 2>>>>

Boxed == app.boxes # None

InImage(box) ==
    /\ 0 <= box.left /\ box.left <= box.right /\ box.right <= app.img_size[1]
    /\ 0 <= box.top /\ box.top <= box.bottom /\ box.bottom <= app.img_size[2]

\* Word w lies within the image.
WordInImage(w) ==
    /\ 0 <= w.left /\ right(w) <= app.img_size[1]
    /\ 0 <= w.top /\ bottom(w) <= app.img_size[2]

Members(g) == {app.words[i + 1] : i \in GroupSet(g)}

NotMalformed(pattern) == pattern.kind # "malformed"

HasMalformed == \E i \in 1..Len(patterns) : ~NotMalformed(patterns[i])

SomeCompiles == \E i \in 1..Len(patterns) : NotMalformed(patterns[i])

\* C14, as claimed: a run whose pattern list has a pattern that does not
\* compile never ends for that reason: where there are documents, it ends
\* only after it has gone on to process them.
C14_MalformedNeverAborts ==
    (HasMalformed /\ inputs # <<>> /\ pc = "exit") => Dispatched

\* C14, amended: a run whose pattern list has a pattern that does not
\* compile and one that does goes on to process the documents, and every
\* redaction pass works with the patterns that compile.
C14_MalformedDropped ==
    (HasMalformed /\ SomeCompiles /\ inputs # <<>>) =>
        /\ pc = "exit" => Dispatched
        /\ Dispatched =>
              \A j \in 1..NumJobs : \A k \in 1..Len(job[j].calls) :
                 IsRedactCall(job[j].calls[k]) =>
                    job[j].calls[k].ret =
                        redact_pdf(inputs[j], SelectSeq(patterns, NotMalformed),
                                   job[j].calls[k].dpi).count

\* A run with a pattern that does not compile has ended after redacting
\* with the others.
C14_Witness ==
    /\ HasMalformed
    /\ pc = "exit"
    /\ Dispatched
    /\ \E j \in 1..NumJobs : Returned(j) /\ ResultOf(j).redactions > 0

\* C19, as claimed: handle_result is never called while another job of the
\* batch is still running.
C19_HandledAfterAllComplete ==
    [][handled' # handled => \A j \in 1..NumJobs : ~Running(j)]_vars

\* C19, amended: handle_result is called with the result of a job that has
\* returned, in submission order, and the batch summary is written and the
\* exit status set only when every job has returned and every result has
\* been handled.
C19_SummaryAfterAllHandled ==
    /\ \A k \in 1..Len(handled) : Returned(k) /\ handled[k] = ResultOf(k)
    /\ (pc = "exit" /\ Dispatched) =>
          /\ \A j \in 1..NumJobs : job[j].state = "returned"
          /\ Len(handled) = NumJobs

\* With two workers, the first result has been handled and the second job
\* is still running.
C19_Witness ==
    /\ num_workers = 2
    /\ Len(handled) = 1
    /\ NumJobs = 2
    /\ Running(2)

Logged(level, event, path) == LogLine(level, event, path) \in Range(lines)

\* The paths the lines of one event name.
PathsOf(event) == {l.path : l \in {m \in Range(lines) : m.event = event}}

ResultsWith(error_code) ==
    {j \in 1..NumJobs : Returned(j) /\ ResultOf(j).error_code = error_code}

\* C20: when the run has reported, every document whose result has the
\* error code NO_MATCHES is logged as NO MATCHES and listed in the
\* summary's no-match list, with --relaxed or without; the verification
\* failures are listed in a list of their own; and each list names exactly
\* the documents with that error code.
C20_AlwaysReported ==
    (pc = "exit" /\ Dispatched) =>
        /\ \A j \in ResultsWith(EXIT_NO_MATCHES) :
              /\ Logged("warning", "NO MATCHES", input_path(j))
              /\ Logged("warning", "no match listed", input_path(j))
        /\ \A j \in ResultsWith(EXIT_VERIFICATION_FAILED) :
              /\ Logged("error", "VERIFY FAILED", output_path(j))
              /\ Logged("error", "verification failure listed", output_path(j))
        /\ PathsOf("no match listed") =
              {input_path(j) : j \in ResultsWith(EXIT_NO_MATCHES)}
        /\ PathsOf("verification failure listed") =
              {output_path(j) : j \in ResultsWith(EXIT_VERIFICATION_FAILED)}
        /\ PathsOf("NO MATCHES") = PathsOf("no match listed")

\* A relaxed run that ended with status 0 and reported one document without
\* a match and one with redactions.
C20_Witness ==
    /\ pc = "exit"
    /\ relaxed
    /\ NumJobs = 2
    /\ exit_status = Some(EXIT_SUCCESS)
    /\ ResultsWith(EXIT_NO_MATCHES) = {1}
    /\ ResultsWith(EXIT_SUCCESS) = {2}
    /\ Logged("warning", "no match listed", input_path(1))

(***************************************************************************)
(* Properties of the steps of redact_image on a line of words.             *)
(***************************************************************************)
\* The words of the scenario: "SSN" and "123-45-6789".
ScenarioWords ==
    <<Word(<<"S", "S", "N">>, 0, 0, 40, 10),
      Word(<<"1", "2", "3", "-", "4", "5", "-", "6", "7", "8", "9">>, 45, 0, 100, 10)>>

\* The grammars match the digit sequence: one of them is the digit run or
\* the literal 123456789.
MatchesDigits == \E g \in 1..Len(app.grammars) : app.grammars[g].kind # "norule"

\* C21: for the words "SSN" (0, 0, 40, 10) and "123-45-6789" (45, 0, 100,
\* 10) and a pattern that matches the digit sequence, the stream is
\* SSN123456789, the matched set is {1}, the groups are [[1]], and there is
\* one box, word 1's rectangle with the padding (cut at the top edge of the
\* image).
C21_Scenario ==
    (app.words = ScenarioWords /\ MatchesDigits) =>
        /\ app.stream # None =>
              app.stream[1].text =
                  <<"S", "S", "N", "1", "2", "3", "4", "5", "6", "7", "8", "9">>
        /\ app.matched # None => app.matched[1] = {1}
        /\ app.groups # None => app.groups[1] = <<<<1>>>>
        /\ app.boxes # None =>
              /\ app.boxes[1] = <<Box(45 - Pad, 0, 145 + Pad, 10 + Pad)>>
              /\ Covers(app.boxes[1][1], ScenarioWords[2])
              /\ ~Covers(app.boxes[1][1], ScenarioWords[1])

\* The scenario after its last step, with the digit run as the pattern.
C21_Witness ==
    /\ app.words = ScenarioWords
    /\ app.grammars = <<DigitRun>>
    /\ app.boxes # None
    /\ Len(app.boxes[1]) = 1

\* The words of the call without an alphanumeric character.
EmptyWords == {i \in 0..(Len(app.words) - 1) : normalize(app.words[i + 1].text) = <<>>}

\* C24: a word whose normalized form is empty has no position of the
\* stream: its index is not in word_map, not in the set find_matches
\* returns and so in no group, whatever the grammars, also when a match
\* spans the words on both sides of it; only the box of a group of its
\* neighbours can cover it.
C24_EmptyWordNeverMatched ==
    \A i \in EmptyWords :
        /\ app.stream # None => i \notin Range(app.stream[1].word_map)
        /\ app.matched # None => i \notin app.matched[1]
        /\ app.groups # None =>
              \A g \in 1..Len(app.groups[1]) : i \notin Range(app.groups[1][g])
        /\ app.boxes # None =>
              \A g \in 1..Len(app.boxes[1]) :
                 Covers(app.boxes[1][g], app.words[i + 1]) =>
                    \E k \in Range(app.groups[1][g]) : k # i

\* The hyphen between two numbers that one match spans: it is not matched,
\* and the box of the group of its neighbours covers it.
C24_Witness ==
    /\ app.boxes # None
    /\ Len(app.words) = 3
    /\ EmptyWords = {1}
    /\ app.matched[1] = {0, 2}
    /\ app.groups[1] = <<<<0, 2>>>>
    /\ Covers(app.boxes[1][1], app.words[2])
    /\ \E g \in 1..Len(app.grammars) :
          Match(app.grammars[g], app.stream[1].text, 0) = Len(app.stream[1].text)

(***************************************************************************)
(* Properties of the two tests of group_adjacent_words and of its earlier  *)
(* revisions.                                                              *)
(***************************************************************************)
\* a and b are matched indices that follow one another in ascending order.
Consecutive(a, b) ==
    /\ a \in app.matched /\ b \in app.matched
    /\ a < b
    /\ \A m \in app.matched : ~(a < m /\ m < b)

GroupOf(i) == CHOOSE g \in GroupIds : i \in GroupSet(g)

\* b stands right after a in a's group.
Extends(a, b) ==
    /\ GroupOf(a) = GroupOf(b)
    /\ \E k \in 1..(Len(app.groups[1][GroupOf(a)]) - 1) :
          /\ app.groups[1][GroupOf(a)][k] = a
          /\ app.groups[1][GroupOf(a)][k + 1] = b

\* b is the first index of a group, the one after a's group.
StartsGroup(a, b) ==
    /\ GroupOf(b) = GroupOf(a) + 1
    /\ app.groups[1][GroupOf(b)][1] = b
    /\ app.groups[1][GroupOf(a)][Len(app.groups[1][GroupOf(a)])] = a

\* C22: the next matched index extends the current group iff, against the
\* group's last member, the tops differ by less than half prev's height and
\* the index is the next one or the gap from prev's right edge to curr's
\* left edge is below 50 pixels; otherwise the group is closed and the
\* index starts a new one.
C22_ExtendIffBothTests ==
    Grouped =>
        \A a \in app.matched : \A b \in app.matched :
            Consecutive(a, b) =>
                LET prev == app.words[a + 1]
                    curr == app.words[b + 1]
                    both == /\ 2 * Abs(prev.top - curr.top) < prev.height
                            /\ \/ b = a + 1
                               \/ curr.left - (prev.left + prev.width) < 50
                IN  /\ both <=> Extends(a, b)
                    /\ ~both <=> StartsGroup(a, b)

\* Three words matched: the second joins the first, the third is exactly
\* half a height lower than the second and starts a group.
C22_Witness ==
    /\ Grouped
    /\ app.words = <<Placed(25, 2), Placed(0, 0), Placed(50, 6)>>
    /\ app.groups[1] = <<<<0, 1>>, <<2>>>>

\* C30: the gap test is signed: two matched words that follow one another
\* among the matched indices, are not index-consecutive and pass the
\* same-line test are joined whenever curr.left - prev.right is below 50,
\* negative values included, so also when curr overlaps prev or lies
\* anywhere to its left.
C30_SignedGap ==
    Grouped =>
        \A a \in app.matched : \A b \in app.matched :
            LET prev == app.words[a + 1]
                curr == app.words[b + 1]
            IN  (/\ Consecutive(a, b)
                 /\ b # a + 1
                 /\ 2 * Abs(prev.top - curr.top) < prev.height
                 /\ \/ curr.left - right(prev) < 50
                    \/ curr.left < right(prev)
                    \/ right(curr) <= prev.left)
                => Extends(a, b)

\* The word at the far right comes first, the word at the left of the line
\* third: the gap is -170 and the two are one group.
C30_Witness ==
    /\ Grouped
    /\ Len(app.words) = 3
    /\ app.words[1] = Placed(150, 0)
    /\ app.words[3] = Placed(0, 0)
    /\ app.matched = {0, 2}
    /\ app.groups[1] = <<<<0, 2>>>>

LegacyGrouped == app.legacy # None

LegacySet(h) == Range(app.legacy[1][h])

\* C29: for the same matched indices and words, every group of the present
\* grouping (coefficient 0.5) is a contiguous run inside exactly one group
\* of the earlier grouping (coefficient 1.5).
C29_Refinement ==
    (Grouped /\ LegacyGrouped) =>
        \A g \in GroupIds :
            /\ Cardinality({h \in 1..Len(app.legacy[1]) :
                               GroupSet(g) \subseteq LegacySet(h)}) = 1
            /\ \A h \in 1..Len(app.legacy[1]) :
                  GroupSet(g) \subseteq LegacySet(h) =>
                     \A m \in LegacySet(h) :
                        (SetMin(GroupSet(g)) <= m /\ m <= SetMax(GroupSet(g)))
                            => m \in GroupSet(g)

\* Two words half a height apart: two groups now, one group before.
C29_Witness ==
    /\ Grouped
    /\ LegacyGrouped
    /\ app.groups[1] = <<<<0>>, <<1>>>>
    /\ app.legacy[1] = <<<<0, 1>>>>

(***************************************************************************)
(* Properties of the results of _process_single_pdf and of the files it    *)
(* leaves.                                                                 *)
(***************************************************************************)
GrammarsOf(j) == compile_grammars(job_args[j].patterns)

\* What OCR reads on page p of job j's input at the resolution used, and
\* the words of it that are matched.
PageWords(j, p) == ocr_page(render_page(inputs[j].pages[p], UsedDpi(j)))

PageMatched(j, p) == find_matches(build_stream(PageWords(j, p)), GrammarsOf(j))

PageGroups(j, p) == group_adjacent_words(PageMatched(j, p), PageWords(j, p))

\* C23: the count is per group, not per word: the redactions of a result
\* are the sum over the pages of the document of the number of groups of
\* group_adjacent_words on the page, which is the number of boxes drawn on
\* the pages of the output.
C23_CountIsPerGroup ==
    \A j \in Jobs :
        Returned(j) =>
            /\ ResultOf(j).redactions =
                  SumSeq([p \in 1..Len(inputs[j].pages) |-> Len(PageGroups(j, p))])
            /\ ResultOf(j).redactions =
                  SumSeq([p \in 1..Len(output[j].pages) |->
                             Cardinality(output[j].pages[p].boxes)])

\* A document of two pages with three matched words in two groups.
C23_Witness ==
    \E j \in Jobs :
        /\ Returned(j)
        /\ Len(inputs[j].pages) = 2
        /\ ResultOf(j).redactions = 2
        /\ Cardinality(PageMatched(j, 1)) = 1
        /\ Cardinality(PageMatched(j, 2)) = 2

\* The pages of job j's input as they look at the resolution dpi, nothing
\* painted on them.
Unredacted(j, dpi) ==
    [p \in 1..Len(inputs[j].pages) |->
        LET img == render_page(inputs[j].pages[p], dpi)
        IN  Page(dpi, img.size, img.words, img.boxes)]

\* C27: every pass writes the output document, whatever its count: after a
\* first pass without redactions the file is there; after a retry the file
\* is what the second pass assembled, at twice the resolution; and a
\* document that ends with NO_MATCHES has an output file with all its pages
\* and nothing redacted on them.
C27_OutputWrittenEveryPass ==
    \A j \in 1..Len(job) :
        /\ job[j].state = "retry" =>
              /\ output[j].readable
              /\ output[j].pages = Unredacted(j, job_args[j].dpi)
        /\ (Returned(j) /\ ResultOf(j).retried_dpi # None) =>
              /\ output[j] = redact_pdf(inputs[j], GrammarsOf(j),
                                        2 * job_args[j].dpi).output
              /\ \A p \in 1..Len(output[j].pages) :
                    output[j].pages[p].ref = 2 * job_args[j].dpi
        /\ (Returned(j) /\ ResultOf(j).error_code = EXIT_NO_MATCHES) =>
              /\ output[j].readable
              /\ output[j].pages = Unredacted(j, 2 * job_args[j].dpi)
              /\ \A p \in 1..Len(output[j].pages) : output[j].pages[p].boxes = {}

\* A document of two pages ended with NO_MATCHES and its output has the two
\* pages.
C27_Witness ==
    \E j \in Jobs :
        /\ Returned(j)
        /\ ResultOf(j).error_code = EXIT_NO_MATCHES
        /\ Len(output[j].pages) = 2
        /\ output[j].pages[2].words # <<>>

\* The count the first pass of job j returned.
FirstCount(j) == job[j].calls[1].ret

\* C28: of every JobResult returned, retried_dpi is None iff the first pass
\* found more than 0 redactions and is 2 * dpi otherwise; error_code is
\* NO_MATCHES iff redactions is 0, and then retried_dpi is 2 * dpi and
\* leaked is 0; leaked > 0 implies redactions > 0, a requested verification
\* and the error code VERIFICATION_FAILED.
C28_ResultFieldsAgree ==
    \A j \in Jobs :
        Returned(j) =>
            LET result == ResultOf(j)
                twice  == Some(2 * job_args[j].dpi)
            IN  /\ result.retried_dpi = None <=> FirstCount(j) > 0
                /\ result.retried_dpi # None => result.retried_dpi = twice
                /\ result.error_code = EXIT_NO_MATCHES <=> result.redactions = 0
                /\ result.redactions = 0 =>
                      (result.retried_dpi = twice /\ result.leaked = 0)
                /\ result.leaked > 0 =>
                      /\ result.redactions > 0
                      /\ job_args[j].verify
                      /\ result.error_code = EXIT_VERIFICATION_FAILED

\* A result of a retry with a redaction and a match the scan still found.
C28_Witness ==
    \E j \in Jobs :
        /\ Returned(j)
        /\ FirstCount(j) = 0
        /\ ResultOf(j).retried_dpi = Some(2 * DefaultDpi)
        /\ ResultOf(j).redactions > 0
        /\ ResultOf(j).leaked > 0

(***************************************************************************)
(* Properties of main's loop over the results.                             *)
(***************************************************************************)
\* Job j of the run has returned its result (a run with fewer jobs has no
\* job j to wait for).
JobReturned(j) == j > NumJobs \/ (Dispatched /\ results[j] # None)

\* C25: if every dispatched job eventually returns, main eventually handles
\* all results and reaches the exit classification; and it reaches it only
\* when every job has returned: a job that never returns keeps main from it
\* for ever.
C25_BatchTerminates ==
    /\ (\A j \in 1..MaxJobs : <>JobReturned(j)) => <>(pc = "exit")
    /\ []((pc = "exit" /\ Dispatched) => \A j \in 1..MaxJobs : JobReturned(j))

\* Two jobs have returned and main has classified the run.
C25_Witness ==
    /\ pc = "exit"
    /\ NumJobs = 2
    /\ Len(handled) = 2
    /\ exit_status # None

\* C26: in both dispatch modes handle_result is called on the results in
\* the order of job_args: the k-th call is on the result of job k, so the
\* result of a job is handled after those of all jobs before it, also when
\* it was there first.
C26_SubmissionOrder ==
    /\ Len(handled) <= Len(job_args)
    /\ \A k \in 1..Len(handled) :
          /\ handled[k].input_path = job_args[k].input_path
          /\ handled[k].output_path = job_args[k].output_path
    /\ \A j \in Jobs :
          (Returned(j) /\ \E i \in 1..(j - 1) : ~Returned(i)) => Len(handled) < j

\* With two workers the second job has returned and the first has not:
\* nothing is handled.
C26_Witness ==
    /\ num_workers = 2
    /\ NumJobs = 2
    /\ Returned(2)
    /\ ~Returned(1)
    /\ job[1].state = "derive"
    /\ handled = <<>>

====
